---- MODULE Spec2Model ----
(***************************************************************************)
(* Model of src/src/App.tsx: the mount effect, the FPSTracker, the         *)
(* FPS-gated spawner spawnCube() and the fixed-timestep loop frame().      *)
(*                                                                         *)
(* Time is counted in whole milliseconds: performance.now() is the         *)
(* variable now, the clock sample of frame() is a number of milliseconds   *)
(* and fixedTimestep (0.016 s) is 16.  Arithmetic on the accumulator is    *)
(* therefore exact.                                                        *)
(*                                                                         *)
(* The two callbacks run on one thread and run to completion; pc is the    *)
(* position of the callback that is running, "idle" when none is.          *)
(*                                                                         *)
(* The physics engine and the renderer are external: a transform is a      *)
(* translation <<x, y, z>> and a rotation (0 is the identity), and         *)
(* world.step() lets every dynamic body fall towards its resting height.   *)
(***************************************************************************)
EXTENDS Integers, Sequences, FiniteSets

\* ---------------------------------------------------------------- bounds
MaxTime == 1000
MaxFrameCount == 26
MaxCubes == 2
MaxLoopTime == 450
MaxLoopCount == 5
MaxStallTime == 20000

\* ------------------------------------------------------ program constants
fixedTimestep == 16
MaxStepsPerFrame == 5
FpsWindow == 500
FpsThreshold == 50
SpawnHeight == 15
RestHeight == 2
FallPerStep == 7

\* elapsed milliseconds between two readings of the time by frame()
Deltas == {0, 500}
\* the same, for the runs that look at the stepping loop alone
LoopDeltas == {0, 2, 16, 50, 64, 200}
\* the same, for the runs in which the page stalls for 20 s
StallDeltas == {0, 20000}
\* draws of the pair (Math.random() * 3, Math.random() * 3)
Draws == {<<0, 1>>, <<2, 1>>}

VARIABLES
    now,            \* performance.now()
    finishedSetup,  \* finishedSetup.current
    intervals,      \* number of setInterval(spawnCube, 100) timers
    loops,          \* number of renderer.setAnimationLoop(frame) registrations
    clockRunning,   \* clock.running
    oldTime,        \* clock.oldTime
    fps,            \* fpsTracker.fps
    frameCount,     \* fpsTracker.frameCount
    lastTime,       \* fpsTracker.lastTime
    accumulator,    \* accumulator
    steps,          \* steps, local to frame()
    cubes,          \* cubes: sequence of [mesh, rigidBody] handles
    bodies,         \* rigid bodies of the world: handle -> transform
    colliders,      \* handles of the bodies that have a collider
    meshes,         \* meshes of the scene: handle -> transform
    cube,           \* cube, local to spawnCube(): the mesh just created
    rigidBody,      \* rigidBody, local to spawnCube(): the body just created
    uiFps,          \* React state fps
    cubesAmount,    \* React state cubesAmount
    pc,             \* position of the running callback
    callback,       \* the callback dispatched last
    entry,          \* the state the last callback was dispatched in
    delta,          \* the sample clock.getDelta() returned to the last frame()
    sumDelta,       \* sum of all samples
    totalSteps,     \* number of world.step() calls
    capped,         \* some frame() left the loop with steps = 5
    updates,        \* number of update() calls since lastTime was set
    drawn           \* what the last render drew: handle -> transform

vars == <<now, finishedSetup, intervals, loops, clockRunning, oldTime, fps,
          frameCount, lastTime, accumulator, steps, cubes, bodies, colliders,
          meshes, cube, rigidBody, uiFps, cubesAmount, pc, callback, entry,
          delta, sumDelta, totalSteps, capped, updates, drawn>>

setupVars == <<finishedSetup, intervals, loops>>
trackerVars == <<fps, frameCount, lastTime>>
clockVars == <<clockRunning, oldTime>>
sceneVars == <<cubes, bodies, colliders, meshes>>
spawnLocals == <<cube, rigidBody>>
loopHistory == <<delta, sumDelta, totalSteps, capped>>
\* Number.POSITIVE_INFINITY
Infinity == 1000000

NoHandle == 0
\* the ground is the first mesh of the scene and the first body of the world
Ground == 1
Origin == <<0, 0, 0>>
Identity == 0
Tumbled == 1

\* faulty variant of Round: Math.floor
RoundDown(num, den) == num \div den

\* Math.round(num / den) for num >= 0, den > 0
Round(num, den) == (2 * num + den) \div (2 * den)

Snapshot ==
    [accumulator |-> accumulator, fps |-> fps, frameCount |-> frameCount,
     lastTime |-> lastTime, cubes |-> cubes,
     nBodies |-> Cardinality(DOMAIN bodies),
     nMeshes |-> Cardinality(DOMAIN meshes),
     totalSteps |-> totalSteps]

GroundMesh == [position |-> Origin, quaternion |-> Identity]
GroundBody == [kind |-> "fixed", translation |-> Origin, rotation |-> Identity]
NewMesh == [position |-> Origin, quaternion |-> Identity]
NewBody(x, z) ==
    [kind |-> "dynamic", translation |-> <<x, SpawnHeight, z>>,
     rotation |-> Identity]

\* faulty variant of CanDispatch: frame() may start between the scene.add(cube) and
\* the createRigidBody() of a running spawnCube()
CanDispatchMidSpawn == pc \in {"idle", "createRigidBody"}

\* a callback is dispatched only when no callback is running
CanDispatch == pc = "idle"

\* faulty variant of Init: the tracker starts at an estimate of 60
InitOptimistic ==
    /\ now = 0
    /\ finishedSetup = FALSE
    /\ intervals = 0
    /\ loops = 0
    /\ clockRunning = FALSE
    /\ oldTime = 0
    /\ fps = 60
    /\ frameCount = 0
    /\ lastTime = 0
    /\ accumulator = 0
    /\ steps = 0
    /\ cubes = <<>>
    /\ bodies = <<>>
    /\ colliders = {}
    /\ meshes = <<>>
    /\ cube = NoHandle
    /\ rigidBody = NoHandle
    /\ uiFps = 0
    /\ cubesAmount = 0
    /\ pc = "idle"
    /\ callback = "none"
    /\ entry = [accumulator |-> 0, fps |-> 0, frameCount |-> 0,
                lastTime |-> 0, cubes |-> <<>>, nBodies |-> 0,
                nMeshes |-> 0, totalSteps |-> 0]
    /\ delta = 0
    /\ sumDelta = 0
    /\ totalSteps = 0
    /\ capped = FALSE
    /\ updates = 0
    /\ drawn = <<>>

Init ==
    /\ now = 0
    /\ finishedSetup = FALSE
    /\ intervals = 0
    /\ loops = 0
    /\ clockRunning = FALSE
    /\ oldTime = 0
    /\ fps = 0
    /\ frameCount = 0
    /\ lastTime = 0
    /\ accumulator = 0
    /\ steps = 0
    /\ cubes = <<>>
    /\ bodies = <<>>
    /\ colliders = {}
    /\ meshes = <<>>
    /\ cube = NoHandle
    /\ rigidBody = NoHandle
    /\ uiFps = 0
    /\ cubesAmount = 0
    /\ pc = "idle"
    /\ callback = "none"
    /\ entry = [accumulator |-> 0, fps |-> 0, frameCount |-> 0,
                lastTime |-> 0, cubes |-> <<>>, nBodies |-> 0,
                nMeshes |-> 0, totalSteps |-> 0]
    /\ delta = 0
    /\ sumDelta = 0
    /\ totalSteps = 0
    /\ capped = FALSE
    /\ updates = 0
    /\ drawn = <<>>

\* ------------------------------------------------------------ mount effect
\* faulty variant of Effect: finishedSetup.current is not tested
EffectNoGuard(mount) ==
    /\ CanDispatch
    /\ callback' = "effect"
    /\ entry' = Snapshot
    /\ IF mount
       THEN /\ finishedSetup' = TRUE
            /\ lastTime' = now
            /\ meshes' = <<GroundMesh>>
            /\ bodies' = <<GroundBody>>
            /\ colliders' = {Ground}
            /\ intervals' = intervals + 1
            /\ loops' = loops + 1
       ELSE UNCHANGED <<finishedSetup, lastTime, meshes, bodies, colliders,
                        intervals, loops>>
    /\ UNCHANGED <<now, clockVars, fps, frameCount, accumulator, steps,
                   cubes, spawnLocals, uiFps, cubesAmount, pc,
                   loopHistory, updates, drawn>>

Effect(mount) ==
    /\ CanDispatch
    /\ callback' = "effect"
    /\ entry' = Snapshot
    /\ IF mount /\ ~finishedSetup
       THEN /\ finishedSetup' = TRUE
            /\ lastTime' = now
            /\ meshes' = <<GroundMesh>>
            /\ bodies' = <<GroundBody>>
            /\ colliders' = {Ground}
            /\ intervals' = intervals + 1
            /\ loops' = loops + 1
       ELSE UNCHANGED <<finishedSetup, lastTime, meshes, bodies, colliders,
                        intervals, loops>>
    /\ UNCHANGED <<now, clockVars, fps, frameCount, accumulator, steps,
                   cubes, spawnLocals, uiFps, cubesAmount, pc,
                   loopHistory, updates, drawn>>

\* ------------------------------------------------------------- FPSTracker
\* faulty variant of Recompute: the window length forgotten
RecomputeAlways(currentTime, last) == currentTime >= last

Recompute(currentTime, last) == currentTime >= last + FpsWindow

\* Math.round((count * 1000) / (currentTime - last)), count > 0
Estimate(count, currentTime, last) ==
    IF currentTime = last THEN Infinity
    ELSE Round(count * 1000, currentTime - last)

\* FPSTracker.update() called at currentTime on the tracker t
Update(t, currentTime) ==
    LET count == t.frameCount + 1 IN
    IF Recompute(currentTime, t.lastTime)
    THEN [fps |-> Estimate(count, currentTime, t.lastTime),
          frameCount |-> 0, lastTime |-> currentTime]
    ELSE [fps |-> t.fps, frameCount |-> count, lastTime |-> t.lastTime]

\* ---------------------------------------------------------------- spawner
\* faulty variant of GateOpen: >= for >
GateOpenAtThreshold(estimate) == estimate >= FpsThreshold
\* faulty variant of GateOpen: the gate also closes once a cube exists
GateOpenOnce(estimate) == estimate > FpsThreshold /\ Len(cubes) < 1

GateOpen(estimate) == estimate > FpsThreshold

\* spawnCube() is dispatched: the gate, and the mesh added to the scene
SpawnCube ==
    /\ CanDispatch
    /\ intervals > 0
    /\ Len(cubes) < MaxCubes
    /\ callback' = "spawnCube"
    /\ entry' = Snapshot
    /\ IF GateOpen(fps)
       THEN /\ meshes' = Append(meshes, NewMesh)
            /\ cube' = Len(meshes) + 1
            /\ pc' = "createRigidBody"
       ELSE UNCHANGED <<meshes, cube, pc>>
    /\ UNCHANGED <<now, setupVars, clockVars, trackerVars, accumulator,
                   steps, cubes, bodies, colliders, rigidBody, uiFps,
                   cubesAmount, loopHistory, updates, drawn>>

CreateRigidBody(x, z) ==
    /\ pc = "createRigidBody"
    /\ bodies' = Append(bodies, NewBody(x, z))
    /\ rigidBody' = Len(bodies) + 1
    /\ pc' = "createCollider"
    /\ UNCHANGED <<now, setupVars, clockVars, trackerVars, accumulator,
                   steps, cubes, colliders, meshes, cube, uiFps,
                   cubesAmount, callback, entry, loopHistory, updates, drawn>>

CreateCollider ==
    /\ pc = "createCollider"
    /\ colliders' = colliders \cup {rigidBody}
    /\ pc' = "push"
    /\ UNCHANGED <<now, setupVars, clockVars, trackerVars, accumulator,
                   steps, cubes, bodies, meshes, spawnLocals, uiFps,
                   cubesAmount, callback, entry, loopHistory, updates, drawn>>

\* faulty variant of Push: cubes.unshift(...) for cubes.push(...)
PushFront ==
    /\ pc = "push"
    /\ cubes' = <<[mesh |-> cube, rigidBody |-> rigidBody]>> \o cubes
    /\ cubesAmount' = Len(cubes')
    /\ cube' = NoHandle
    /\ rigidBody' = NoHandle
    /\ pc' = "idle"
    /\ UNCHANGED <<now, setupVars, clockVars, trackerVars, accumulator,
                   steps, bodies, colliders, meshes, uiFps, callback, entry,
                   loopHistory, updates, drawn>>

\* faulty variant of Push: setCubesAmount(cubes.length) before the push
PushStaleCount ==
    /\ pc = "push"
    /\ cubes' = Append(cubes, [mesh |-> cube, rigidBody |-> rigidBody])
    /\ cubesAmount' = Len(cubes)
    /\ cube' = NoHandle
    /\ rigidBody' = NoHandle
    /\ pc' = "idle"
    /\ UNCHANGED <<now, setupVars, clockVars, trackerVars, accumulator,
                   steps, bodies, colliders, meshes, uiFps, callback, entry,
                   loopHistory, updates, drawn>>

Push ==
    /\ pc = "push"
    /\ cubes' = Append(cubes, [mesh |-> cube, rigidBody |-> rigidBody])
    /\ cubesAmount' = Len(cubes')
    /\ cube' = NoHandle
    /\ rigidBody' = NoHandle
    /\ pc' = "idle"
    /\ UNCHANGED <<now, setupVars, clockVars, trackerVars, accumulator,
                   steps, bodies, colliders, meshes, uiFps, callback, entry,
                   loopHistory, updates, drawn>>

\* ------------------------------------------------------------------ frame
\* clock.getDelta() read at time t: 0 on the call that starts the clock
GetDelta(t) == IF clockRunning THEN t - oldTime ELSE 0

\* faulty variants of LoopCondition: no cap, a strict comparison, one step too many
LoopConditionNoCap(acc, s) == acc >= fixedTimestep
LoopConditionStrict(acc, s) == acc > fixedTimestep /\ s < MaxStepsPerFrame
LoopConditionOneMore(acc, s) == acc >= fixedTimestep /\ s <= MaxStepsPerFrame
\* and: any positive remainder is stepped, one step short of the cap
LoopConditionPositive(acc, s) == acc > 0 /\ s < MaxStepsPerFrame
LoopConditionOneLess(acc, s) == acc >= fixedTimestep /\ s < MaxStepsPerFrame - 1

LoopCondition(acc, s) == acc >= fixedTimestep /\ s < MaxStepsPerFrame

Fall(b) ==
    LET y == b.translation[2]
        newY == IF y - FallPerStep > RestHeight THEN y - FallPerStep
                ELSE RestHeight
    IN [b EXCEPT !.translation[2] = newY,
                 !.rotation = IF y > RestHeight /\ newY = RestHeight
                              THEN Tumbled ELSE @]

\* world.step()
WorldStep(bs) ==
    [h \in DOMAIN bs |-> IF bs[h].kind = "dynamic" THEN Fall(bs[h]) ELSE bs[h]]

\* faulty variant of CopyTransform: the rotation is applied to the mesh's own
\* (quaternion.multiply for quaternion.copy)
CopyTransformCompose(m, b) ==
    [m EXCEPT !.position = b.translation,
              !.quaternion = m.quaternion + b.rotation]

\* mesh.position.copy(...); mesh.quaternion.copy(...)
CopyTransform(m, b) ==
    [m EXCEPT !.position = b.translation, !.quaternion = b.rotation]

\* cubes.forEach(...) of frame()
SyncAll(ms, bs, cs) ==
    [h \in DOMAIN ms |->
        IF \E i \in DOMAIN cs : cs[i].mesh = h
        THEN LET i == CHOOSE j \in DOMAIN cs : cs[j].mesh = h
             IN CopyTransform(ms[h], bs[cs[i].rigidBody])
        ELSE ms[h]]

\* frame() is dispatched d ms after the last reading of the time:
\* the clock sample, the tracker update and the reset of steps
Frame(d) ==
    /\ CanDispatch
    /\ loops > 0
    /\ callback' = "frame"
    /\ entry' = Snapshot
    /\ now' = now + d
    /\ delta' = GetDelta(now')
    /\ clockRunning' = TRUE
    /\ oldTime' = now'
    /\ accumulator' = accumulator + delta'
    /\ sumDelta' = sumDelta + delta'
    /\ LET t == Update([fps |-> fps, frameCount |-> frameCount,
                        lastTime |-> lastTime], now')
       IN /\ fps' = t.fps
          /\ frameCount' = t.frameCount
          /\ lastTime' = t.lastTime
          /\ uiFps' = t.fps
          /\ updates' = IF t.lastTime = lastTime THEN updates + 1 ELSE 0
    /\ steps' = 0
    /\ pc' = "loop"
    /\ UNCHANGED <<setupVars, sceneVars, spawnLocals, cubesAmount,
                   totalSteps, capped, drawn>>

\* faulty variant of Step: the backlog is dropped when the cap is reached
StepDiscard ==
    /\ pc = "loop"
    /\ LoopCondition(accumulator, steps)
    /\ bodies' = WorldStep(bodies)
    /\ accumulator' = IF steps + 1 = MaxStepsPerFrame THEN 0
                      ELSE accumulator - fixedTimestep
    /\ steps' = steps + 1
    /\ totalSteps' = totalSteps + 1
    /\ UNCHANGED <<now, setupVars, clockVars, trackerVars, cubes, colliders,
                   meshes, spawnLocals, uiFps, cubesAmount, pc, callback,
                   entry, delta, sumDelta, capped, updates, drawn>>

\* one iteration of the while loop
Step ==
    /\ pc = "loop"
    /\ LoopCondition(accumulator, steps)
    /\ bodies' = WorldStep(bodies)
    /\ accumulator' = accumulator - fixedTimestep
    /\ steps' = steps + 1
    /\ totalSteps' = totalSteps + 1
    /\ UNCHANGED <<now, setupVars, clockVars, trackerVars, cubes, colliders,
                   meshes, spawnLocals, uiFps, cubesAmount, pc, callback,
                   entry, delta, sumDelta, capped, updates, drawn>>

\* faulty variant of Sync: no sync when no step ran
SyncIfStepped ==
    /\ pc = "loop"
    /\ ~LoopCondition(accumulator, steps)
    /\ meshes' = IF steps > 0 THEN SyncAll(meshes, bodies, cubes) ELSE meshes
    /\ capped' = (capped \/ steps = MaxStepsPerFrame)
    /\ pc' = "render"
    /\ UNCHANGED <<now, setupVars, clockVars, trackerVars, accumulator,
                   steps, cubes, bodies, colliders, spawnLocals, uiFps,
                   cubesAmount, callback, entry, delta, sumDelta,
                   totalSteps, updates, drawn>>

\* the loop is left and every pair is synced
Sync ==
    /\ pc = "loop"
    /\ ~LoopCondition(accumulator, steps)
    /\ meshes' = SyncAll(meshes, bodies, cubes)
    /\ capped' = (capped \/ steps = MaxStepsPerFrame)
    /\ pc' = "render"
    /\ UNCHANGED <<now, setupVars, clockVars, trackerVars, accumulator,
                   steps, cubes, bodies, colliders, spawnLocals, uiFps,
                   cubesAmount, callback, entry, delta, sumDelta,
                   totalSteps, updates, drawn>>

\* renderer.render(scene, camera.camera)
Render ==
    /\ pc = "render"
    /\ drawn' = meshes
    /\ pc' = "idle"
    /\ UNCHANGED <<now, setupVars, clockVars, trackerVars, accumulator,
                   steps, sceneVars, spawnLocals, uiFps, cubesAmount,
                   callback, entry, loopHistory, updates>>

\* the bound of a run: it ends at maxTime, and at most maxCount frames
\* fall in one window of the tracker
Within(d, maxTime, maxCount) == now + d <= maxTime /\ frameCount < maxCount

Next ==
    \/ \E mount \in BOOLEAN : Effect(mount)
    \/ SpawnCube
    \/ \E r \in Draws : CreateRigidBody(r[1], r[2])
    \/ CreateCollider
    \/ Push
    \/ \E d \in Deltas : Within(d, MaxTime, MaxFrameCount) /\ Frame(d)
    \/ Step
    \/ Sync
    \/ Render

Spec == Init /\ [][Next]_vars

\* The stepping loop under a richer set of clock samples.  The run is
\* shorter than one window of the tracker, so the estimate stays 0 and
\* spawnCube() never gets past its gate.
NextLoop ==
    \/ \E mount \in BOOLEAN : Effect(mount)
    \/ SpawnCube
    \/ \E d \in LoopDeltas : Within(d, MaxLoopTime, MaxLoopCount) /\ Frame(d)
    \/ Step
    \/ Sync
    \/ Render

SpecLoop == Init /\ [][NextLoop]_vars

\* The stepping loop when the page stalls: one sample of 20 s.
NextStall ==
    \/ \E mount \in BOOLEAN : Effect(mount)
    \/ SpawnCube
    \/ \E d \in StallDeltas : Within(d, MaxStallTime, MaxFrameCount) /\ Frame(d)
    \/ Step
    \/ Sync
    \/ Render

SpecStall == Init /\ [][NextStall]_vars

\* ----------------------------------------------------------------- claims
\* the running or last callback is frame() and its loop has been left
FrameLeftLoop == callback = "frame" /\ pc \in {"render", "idle"}

\* world.step() calls made by the running or last callback
StepsTaken == totalSteps - entry.totalSteps

\* C1 -- Step cap: in one invocation of frame() world.step() is called at
\* most MaxStepsPerFrame = 5 times, whatever the accumulator and the sample,
\* and the loop terminates: steps counts the calls, every iteration raises
\* it by one and it never exceeds 5.
C1_StepCap ==
    [][ /\ steps' \in 0..MaxStepsPerFrame
        /\ StepsTaken' <= MaxStepsPerFrame
        /\ (callback' = "frame" => StepsTaken' = steps')
        /\ (pc = "loop" /\ pc' = "loop" =>
                steps' = steps + 1 /\ totalSteps' = totalSteps + 1) ]_vars

\* a frame() entered with an accumulator of at least 1000 steps has taken
\* 5 steps and leaves the loop with the backlog
C1_Witness ==
    /\ pc = "render"
    /\ callback = "frame"
    /\ entry.accumulator >= 1000 * fixedTimestep
    /\ steps = MaxStepsPerFrame
    /\ accumulator >= fixedTimestep

\* C2 -- While no invocation of frame() has reached the cap of 5 steps, the
\* number of steps taken over all samples is floor(sum of samples /
\* fixedTimestep) and the accumulator after each invocation is in
\* [0, fixedTimestep); a single sample of 50 ms from accumulator 0 gives
\* exactly 3 steps and leaves 2 ms.
C2_StepsAreFloor ==
    /\ (pc \in {"render", "idle"} /\ ~capped =>
            /\ totalSteps = sumDelta \div fixedTimestep
            /\ accumulator >= 0
            /\ accumulator < fixedTimestep)
    /\ (FrameLeftLoop /\ entry.accumulator = 0 /\ delta = 50 =>
            steps = 3 /\ accumulator = 2)

\* two samples of 50 ms: 6 steps, 4 ms left, the cap never reached
C2_Witness ==
    /\ pc = "idle"
    /\ callback = "frame"
    /\ ~capped
    /\ sumDelta = 100
    /\ totalSteps = 6
    /\ accumulator = 4

\* C3 -- When accumulator + sample >= 5 * fixedTimestep the invocation takes
\* exactly 5 steps and leaves accumulator + sample - 5 * fixedTimestep; it is
\* not stalled: at 5 steps the loop can only be left, to the sync and then
\* the render.  An invocation whose sample exceeds 5 * fixedTimestep strictly
\* increases the lag sumDelta - totalSteps * fixedTimestep.
C3_CapFallsBehind ==
    /\ (FrameLeftLoop
          /\ entry.accumulator + delta >= MaxStepsPerFrame * fixedTimestep =>
            /\ steps = MaxStepsPerFrame
            /\ StepsTaken = MaxStepsPerFrame
            /\ accumulator =
                 entry.accumulator + delta - MaxStepsPerFrame * fixedTimestep)
    /\ (FrameLeftLoop /\ delta > MaxStepsPerFrame * fixedTimestep =>
            sumDelta - totalSteps * fixedTimestep
              > (sumDelta - delta) - entry.totalSteps * fixedTimestep)
    /\ (pc = "loop" /\ steps >= MaxStepsPerFrame =>
            ~ENABLED Step /\ ENABLED Sync)
    /\ (pc = "render" => ENABLED Render)
    /\ (FrameLeftLoop /\ pc = "idle" => drawn = meshes)

\* from accumulator 0 a sample of 200 ms: 5 steps, 120 ms left, frame drawn
C3_Witness ==
    /\ pc = "idle"
    /\ callback = "frame"
    /\ entry.accumulator = 0
    /\ delta = 200
    /\ steps = MaxStepsPerFrame
    /\ accumulator = 120
    /\ drawn = meshes

\* spawnCube() is running, past its gate
InSpawn == pc \in {"createRigidBody", "createCollider", "push"}

\* C4 -- Spawner gate: an invocation of spawnCube() appends exactly one new
\* mesh/body pair if and only if the estimate in the tracker at that moment is
\* strictly greater than 50; otherwise it creates no mesh, no body and no pair.
C4_SpawnGate ==
    /\ (InSpawn => callback = "spawnCube" /\ entry.fps > FpsThreshold
                     /\ fps = entry.fps)
    /\ (callback = "spawnCube" /\ pc = "idle" =>
          IF entry.fps > FpsThreshold
          THEN /\ Len(cubes) = Len(entry.cubes) + 1
               /\ SubSeq(cubes, 1, Len(entry.cubes)) = entry.cubes
               /\ Cardinality(DOMAIN bodies) = entry.nBodies + 1
               /\ Cardinality(DOMAIN meshes) = entry.nMeshes + 1
               /\ cubes[Len(cubes)] =
                    [mesh |-> Len(meshes), rigidBody |-> Len(bodies)]
               /\ Len(bodies) \in colliders
          ELSE /\ cubes = entry.cubes
               /\ Cardinality(DOMAIN bodies) = entry.nBodies
               /\ Cardinality(DOMAIN meshes) = entry.nMeshes)

\* a tick at an estimate of 52 has appended one pair
C4_Witness ==
    /\ callback = "spawnCube"
    /\ pc = "idle"
    /\ entry.fps = 52
    /\ Len(cubes) = Len(entry.cubes) + 1

\* frame() is dispatched by this step: the call of FPSTracker.update()
UpdateCall == pc = "idle" /\ pc' = "loop"

\* C5 -- The estimate and the window start change only in an update() call
\* made at least 500 ms after the window start; an update() call made earlier
\* returns what the previous call returned and leaves the window start alone.
C5_WindowedRecompute ==
    [][ /\ (fps' # fps \/ lastTime' # lastTime =>
              UpdateCall /\ now' >= lastTime + FpsWindow)
        /\ (UpdateCall /\ now' < lastTime + FpsWindow =>
              fps' = fps /\ uiFps' = uiFps /\ lastTime' = lastTime) ]_vars

\* update() calls after a recompute to 52, in the same window: still 52
C5_Witness ==
    /\ callback = "frame"
    /\ fps = 52
    /\ uiFps = 52
    /\ frameCount > 1
    /\ lastTime = 500
    /\ now < lastTime + FpsWindow

\* C6 -- An update() call made elapsedMs >= 500 after the window start sets
\* and returns round(n * 1000 / elapsedMs), n the number of update() calls
\* since the previous recompute with this one, sets the frame counter to 0 and
\* the window start to now; the divisor is never 0 and the frame counter is
\* the number of update() calls since the last recompute.
C6_Estimate ==
    [][ /\ (UpdateCall /\ now' - lastTime >= FpsWindow =>
              LET elapsedMs == now' - lastTime
                  n == updates + 1
              IN /\ 2 * fps' * elapsedMs > 2000 * n - elapsedMs
                 /\ 2 * fps' * elapsedMs <= 2000 * n + elapsedMs
                 /\ uiFps' = fps'
                 /\ frameCount' = 0
                 /\ lastTime' = now')
        /\ (fps' # fps => now' - lastTime > 0)
        /\ frameCount' = updates' ]_vars

\* 10 calls in 20 s: 0.5 frames per second, rounded up to 1
C6_Witness ==
    /\ callback = "frame"
    /\ entry.frameCount = 9
    /\ now = 20000
    /\ lastTime = now
    /\ entry.lastTime = 0
    /\ fps = 1
    /\ frameCount = 0

\* every mesh of cubes has the transform of its body
AllSynced(ms) ==
    \A i \in DOMAIN cubes :
        /\ ms[cubes[i].mesh].position = bodies[cubes[i].rigidBody].translation
        /\ ms[cubes[i].mesh].quaternion = bodies[cubes[i].rigidBody].rotation

\* C7 -- The sync is idempotent: a second sync with no physics step in
\* between changes no mesh, in any state and in particular after the sync of
\* frame().
C7_SyncIdempotent ==
    /\ SyncAll(SyncAll(meshes, bodies, cubes), bodies, cubes)
         = SyncAll(meshes, bodies, cubes)
    /\ (pc = "render" => SyncAll(meshes, bodies, cubes) = meshes)

\* after steps, the sync of a cube that has landed and tumbled
C7_Witness ==
    /\ pc = "render"
    /\ steps > 0
    /\ \E i \in DOMAIN cubes :
          /\ meshes[cubes[i].mesh].position[2] = RestHeight
          /\ meshes[cubes[i].mesh].quaternion = Tumbled

\* C8 -- Order of effects of frame(): the sample is added to the
\* accumulator, then the 0..5 steps run, then every pair is synced once, then
\* the scene is rendered once; sync and render happen with zero steps too;
\* after the sync every mesh of cubes has its body's transform, and that is
\* what the render draws.
C8_FrameOrder ==
    [][ /\ (pc = "idle" /\ pc' = "loop" =>
              /\ accumulator' = accumulator + delta'
              /\ steps' = 0
              /\ bodies' = bodies /\ meshes' = meshes /\ drawn' = drawn)
        /\ (pc = "loop" /\ pc' = "loop" =>
              /\ steps' = steps + 1
              /\ meshes' = meshes /\ drawn' = drawn)
        /\ (pc = "loop" /\ pc' # "loop" =>
              /\ pc' = "render"
              /\ steps \in 0..MaxStepsPerFrame
              /\ AllSynced(meshes')
              /\ bodies' = bodies /\ drawn' = drawn)
        /\ (pc = "render" =>
              /\ pc' = "idle"
              /\ AllSynced(meshes)
              /\ meshes' = meshes /\ bodies' = bodies
              /\ drawn' = meshes)
        /\ (drawn' # drawn => pc = "render")
        /\ (meshes' # meshes =>
              \/ pc = "loop" /\ pc' = "render"
              \/ pc = "idle" /\ callback' \in {"spawnCube", "effect"}) ]_vars

\* a frame() with zero steps has synced a cube no render has drawn yet
C8_Witness ==
    /\ pc = "render"
    /\ steps = 0
    /\ Len(cubes) > 0
    /\ Len(drawn) < Len(meshes)
    /\ meshes[Len(meshes)].position[2] = SpawnHeight

\* C9 -- While frame() runs, and whenever a callback can be dispatched, every
\* mesh added to the scene by spawnCube() is the mesh of a pair of cubes, and
\* the body of every pair exists in the world with its collider.
C9_NoPartialPair ==
    pc \in {"idle", "loop", "render"} =>
        /\ cube = NoHandle
        /\ rigidBody = NoHandle
        /\ \A h \in DOMAIN meshes \ {Ground} :
              \E i \in DOMAIN cubes : cubes[i].mesh = h
        /\ \A i \in DOMAIN cubes :
              /\ cubes[i].mesh \in DOMAIN meshes
              /\ cubes[i].rigidBody \in DOMAIN bodies
              /\ cubes[i].rigidBody \in colliders

\* a frame() that runs after a spawnCube() has added a pair
C9_Witness ==
    /\ pc = "loop"
    /\ Len(cubes) > 0
    /\ Len(drawn) < Len(meshes)

\* C10 -- cubes only grows, by the push of spawnCube(): entries never change
\* or move; frame() leaves cubes alone; spawnCube() leaves the accumulator and
\* the three fields of the tracker alone.
C10_AppendOnly ==
    [][ /\ Len(cubes') >= Len(cubes)
        /\ SubSeq(cubes', 1, Len(cubes)) = cubes
        /\ (cubes' # cubes => pc = "push" /\ callback = "spawnCube")
        /\ (pc \in {"loop", "render"} \/ pc' = "loop" => cubes' = cubes)
        /\ (callback' = "spawnCube" =>
              /\ accumulator' = accumulator
              /\ fps' = fps
              /\ frameCount' = frameCount
              /\ lastTime' = lastTime) ]_vars

\* two pairs, in the order of their creation, after a frame()
C10_Witness ==
    /\ pc = "idle"
    /\ callback = "frame"
    /\ Len(cubes) = 2
    /\ cubes[1].mesh < cubes[2].mesh

\* C11 -- Accumulator conservation: the accumulator changes only by the
\* sample added at the start of frame() and by fixedTimestep subtracted with
\* each world.step(); it is never clamped or reset, so in every state, cap
\* reached or not, sumDelta = totalSteps * fixedTimestep + accumulator.
C11_Conservation ==
    [][ /\ sumDelta' = totalSteps' * fixedTimestep + accumulator'
        /\ (accumulator' # accumulator =>
              \/ /\ UpdateCall
                 /\ accumulator' = accumulator + delta'
                 /\ totalSteps' = totalSteps
              \/ /\ pc = "loop" /\ pc' = "loop"
                 /\ accumulator' = accumulator - fixedTimestep
                 /\ totalSteps' = totalSteps + 1)
        /\ (totalSteps' # totalSteps =>
              accumulator' = accumulator - fixedTimestep) ]_vars

\* a frame() that reached the cap has ended with the steps not taken still
\* in the accumulator
C11_Witness ==
    /\ pc = "idle"
    /\ callback = "frame"
    /\ capped
    /\ steps = MaxStepsPerFrame
    /\ accumulator >= fixedTimestep
    /\ sumDelta = totalSteps * fixedTimestep + accumulator

\* C12 -- The accumulator is never negative, between the iterations of the
\* loop too (samples are >= 0); and when frame() has left its loop either the
\* accumulator is below fixedTimestep or exactly 5 steps were taken.
C12_NonNegative ==
    /\ delta >= 0
    /\ accumulator >= 0
    /\ (FrameLeftLoop =>
            accumulator < fixedTimestep \/ StepsTaken = MaxStepsPerFrame)

\* between two iterations, the remainder of a 50 ms sample after 3 steps
C12_Witness ==
    /\ pc = "loop"
    /\ steps = 3
    /\ accumulator = 2
    /\ delta = 50

\* the steps a frame() takes from accumulator acc: the whole steps in acc,
\* at most 5
StepsDue(acc) ==
    IF acc \div fixedTimestep < MaxStepsPerFrame THEN acc \div fixedTimestep
    ELSE MaxStepsPerFrame

\* C13 -- Catch-up after a slow frame: backlog left by a capped invocation
\* is consumed later.  An invocation whose sample is below fixedTimestep
\* (even 0) still takes up to 5 steps while the accumulator is at least
\* fixedTimestep; an invocation whose sample is at most 4 * fixedTimestep
\* ends below fixedTimestep or lowers the accumulator by at least
\* fixedTimestep, so finitely many of them bring it below fixedTimestep; and
\* whenever it is below fixedTimestep, totalSteps = floor(sumDelta /
\* fixedTimestep).
C13_CatchUp ==
    /\ (FrameLeftLoop /\ delta < fixedTimestep
          /\ entry.accumulator >= fixedTimestep =>
            /\ StepsTaken >= 1
            /\ StepsTaken = StepsDue(entry.accumulator + delta))
    /\ (FrameLeftLoop /\ delta <= (MaxStepsPerFrame - 1) * fixedTimestep =>
            \/ accumulator < fixedTimestep
            \/ accumulator <= entry.accumulator - fixedTimestep)
    /\ (accumulator < fixedTimestep =>
            totalSteps = sumDelta \div fixedTimestep)

\* after a capped frame(), a frame() with sample 0 has taken steps and has
\* brought the accumulator below fixedTimestep
C13_Witness ==
    /\ pc = "idle"
    /\ callback = "frame"
    /\ capped
    /\ delta = 0
    /\ StepsTaken > 0
    /\ entry.accumulator >= fixedTimestep
    /\ accumulator < fixedTimestep
    /\ totalSteps = sumDelta \div fixedTimestep

\* C14 -- Stale gate: the estimate spawnCube() reads is written only by the
\* update() of frame().  While it is above 50 every spawner tick gets past
\* the gate and runs on to its push, whether or not a frame() runs in
\* between, so nothing but a frame() bounds the pairs appended; the gate
\* closes only in a frame() that recomputes an estimate of at most 50.
C14_StaleGate ==
    /\ [](pc = "idle" /\ intervals > 0 /\ fps > FpsThreshold
            /\ Len(cubes) < MaxCubes =>
              ENABLED (SpawnCube /\ pc' = "createRigidBody"))
    /\ [](InSpawn => fps > FpsThreshold)
    /\ [][ /\ (fps' # fps => UpdateCall /\ callback' = "frame")
           /\ (fps > FpsThreshold /\ fps' <= FpsThreshold =>
                 /\ UpdateCall
                 /\ now' >= lastTime + FpsWindow
                 /\ lastTime' = now') ]_vars

\* MaxCubes pairs appended since the last render, which drew the ground alone
C14_Witness ==
    /\ pc = "idle"
    /\ callback = "spawnCube"
    /\ fps > FpsThreshold
    /\ Len(drawn) = 1
    /\ Len(cubes) = MaxCubes

\* C15 -- No spawn before the first measurement: the estimate starts at 0,
\* and until an update() at least 500 ms after the construction of the
\* tracker has recomputed it, whatever the spawner ticks, cubes is empty and
\* no mesh but the ground is in the scene; the first spawnCube() that gets
\* past the gate reads a recomputed estimate above 50.
C15_NoEarlySpawn ==
    /\ (lastTime < FpsWindow =>
            /\ fps = 0
            /\ cubes = <<>>
            /\ ~InSpawn
            /\ Len(meshes) <= 1
            /\ cubesAmount = 0)
    /\ (InSpawn \/ cubes # <<>> => lastTime >= FpsWindow)
    /\ (InSpawn /\ cubes = <<>> => fps > FpsThreshold)

\* a spawner tick after 20 frames of the first window: still nothing spawned
C15_Witness ==
    /\ pc = "idle"
    /\ callback = "spawnCube"
    /\ finishedSetup
    /\ lastTime = 0
    /\ frameCount >= 20
    /\ cubes = <<>>
    /\ Len(meshes) = 1

\* C16 -- Setup runs at most once: however often the mount effect is
\* invoked, at most one spawner timer and one frame loop exist, created
\* together in the one invocation that sets finishedSetup; an invocation
\* after that changes nothing of the scene; an invocation with the mount
\* absent does not set finishedSetup, so an invocation with the mount present
\* can still perform the setup.
C16_SetupOnce ==
    /\ [](/\ intervals \in {0, 1}
          /\ loops = intervals
          /\ (finishedSetup <=> intervals = 1))
    /\ [](~finishedSetup =>
            ENABLED (Effect(TRUE) /\ finishedSetup' /\ intervals' = 1
                                  /\ loops' = 1))
    /\ [][ /\ (intervals' # intervals \/ loops' # loops
                \/ finishedSetup' # finishedSetup =>
                  /\ callback' = "effect"
                  /\ ~finishedSetup /\ finishedSetup'
                  /\ intervals' = 1 /\ loops' = 1)
           /\ (finishedSetup /\ callback' = "effect" =>
                  UNCHANGED <<setupVars, sceneVars, trackerVars, clockVars,
                              accumulator>>) ]_vars

\* the effect invoked again after the setup, frames and a spawn
C16_Witness ==
    /\ pc = "idle"
    /\ callback = "effect"
    /\ finishedSetup
    /\ clockRunning
    /\ Len(cubes) > 0
    /\ intervals = 1
    /\ loops = 1

\* C17 -- UI readout: whenever no callback is running the displayed cube
\* count is the length of cubes (0 at the start, cubes.length after each
\* spawn that got past the gate), and the displayed FPS is the estimate of
\* the tracker, from the dispatch of every frame() on.
C17_Readout ==
    /\ (pc = "idle" => cubesAmount = Len(cubes))
    /\ (cubes = <<>> => cubesAmount = 0)
    /\ uiFps = fps

\* after a frame(): two cubes and an estimate of 52 displayed
C17_Witness ==
    /\ pc = "idle"
    /\ callback = "frame"
    /\ Len(cubes) = 2
    /\ cubesAmount = 2
    /\ fps = 52
    /\ uiFps = 52
====
